---- MODULE Spec2Model ----
(***************************************************************************)
(* Appointment calendar: slot generation (DayView / WeekView), bucketing   *)
(* and positioning (DayView), the fetch effect of useAppointments and the  *)
(* search filter of ScheduleView.                                          *)
(*                                                                         *)
(* Time is counted in whole minutes of local time from midnight of day 0,  *)
(* which is a Monday.  A JavaScript Date is its minute count; the offsets  *)
(* that the code computes in milliseconds are the same numbers divided by  *)
(* 60000.  Daylight-saving shifts are not modelled.                        *)
(***************************************************************************)
EXTENDS Integers, Sequences, FiniteSets, TLC

VARIABLES
    \* ---- slot generator (DayView.timeSlots / WeekView.timeSlots)
    config,              \* the CalendarConfig the generator reads
    slotDate,            \* the `date` the slots are built for
    slots,               \* the memoised timeSlots value (<<>> before the memo runs)
    slotsBuilt,          \* whether the timeSlots memo has run
    \* ---- DayView component
    dvAppointments,      \* props.appointments
    dvDate,              \* props.date
    dvRows,              \* per slot, the appointments rendered under it
    dvRendered,          \* whether the component has rendered its props
    \* ---- getAppointmentPosition
    posAppointment,      \* its `appointment` argument
    posSlot,             \* its `slot` argument
    position,            \* its result, NoPosition before the call
    \* ---- ScheduleView + useAppointments
    selectedDoctorId,    \* SchedulePage state
    selectedDate,        \* SchedulePage state
    view,                \* SchedulePage state
    searchQuery,         \* ScheduleView state
    appointments,        \* useAppointments state (rawAppointments in ScheduleView)
    loading,             \* useAppointments state
    error,               \* useAppointments state
    fetchedAppointments, \* the effect's local: what the store query returned last
    effectPending,       \* the fetch effect is scheduled (its dependencies changed)
    \* ---- WeekView component
    wvAppointments,      \* props.appointments
    wvWeekStartDate,     \* props.weekStartDate
    wvToday,             \* new Date() when the timeSlots memo ran (at mount)
    wvCells,             \* per day and slot, the appointments rendered in the cell
    wvRendered,          \* whether the component has rendered its props
    \* ---- getAppointmentDuration / getAppointmentSlotSpan (DayView)
    spanAppointment,     \* the appointment the day view is handed
    spanRows,            \* per slot, the appointments listed under it
    span                 \* the duration and slot span computed for it

slotVars == <<config, slotDate, slots, slotsBuilt>>
dayVars  == <<dvAppointments, dvDate, dvRows, dvRendered>>
posVars  == <<posAppointment, posSlot, position>>
hookVars == <<selectedDoctorId, selectedDate, view, searchQuery, appointments,
              loading, error, fetchedAppointments, effectPending>>
weekVars == <<wvAppointments, wvWeekStartDate, wvToday, wvCells, wvRendered>>
spanVars == <<spanAppointment, spanRows, span>>
vars     == <<slotVars, dayVars, posVars, hookVars, weekVars, spanVars>>

(***************************************************************************)
(* Dates                                                                   *)
(***************************************************************************)
MinutesPerDay == 24 * 60

\* Midnight of the local day an instant lies in.
startOfDay(t) == (t \div MinutesPerDay) * MinutesPerDay

\* date.setHours(hour, minute, 0, 0) on a copy of `date`.
setHours(date, hour, minute) == startOfDay(date) + hour * 60 + minute

\* date.getHours() and date.getMinutes().
getHours(t)   == (t % MinutesPerDay) \div 60
getMinutes(t) == t % 60

(***************************************************************************)
(* Calendar configuration                                                  *)
(***************************************************************************)
DEFAULT_CALENDAR_CONFIG == [startHour |-> 8, endHour |-> 18, slotDuration |-> 30]

(***************************************************************************)
(* Time-slot generator: the two nested loops of the timeSlots memo.        *)
(* A slot is [start, end]; its label is a rendering of start.              *)
(***************************************************************************)
RECURSIVE minuteLoop(_, _, _, _)
minuteLoop(date, hour, minute, slotDuration) ==
    IF minute < 60
    THEN LET start == setHours(date, hour, minute)
             end   == start + slotDuration   \* end.setMinutes(end.getMinutes() + slotDuration)
         IN  <<[start |-> start, end |-> end]>>
             \o minuteLoop(date, hour, minute + slotDuration, slotDuration)
    ELSE <<>>

RECURSIVE hourLoop(_, _, _, _)
hourLoop(date, hour, endHour, slotDuration) ==
    IF hour < endHour
    THEN minuteLoop(date, hour, 0, slotDuration)
         \o hourLoop(date, hour + 1, endHour, slotDuration)
    ELSE <<>>

\* Faulty variant of the generator: the inner loop runs while minute <= 60.
RECURSIVE minuteLoopInclusive(_, _, _, _)
minuteLoopInclusive(date, hour, minute, slotDuration) ==
    IF minute <= 60
    THEN LET start == setHours(date, hour, minute)
             end   == start + slotDuration
         IN  <<[start |-> start, end |-> end]>>
             \o minuteLoopInclusive(date, hour, minute + slotDuration, slotDuration)
    ELSE <<>>

RECURSIVE hourLoopInclusive(_, _, _, _)
hourLoopInclusive(date, hour, endHour, slotDuration) ==
    IF hour < endHour
    THEN minuteLoopInclusive(date, hour, 0, slotDuration)
         \o hourLoopInclusive(date, hour + 1, endHour, slotDuration)
    ELSE <<>>

timeSlotsInclusive(date, cfg) ==
    hourLoopInclusive(date, cfg.startHour, cfg.endHour, cfg.slotDuration)

\* Faulty variant of the generator: each slot ends slotDuration - 1 minutes after its start.
RECURSIVE shortSlots(_, _)
shortSlots(s, slotDuration) ==
    IF s = <<>> THEN <<>>
    ELSE <<[start |-> Head(s).start, end |-> Head(s).start + slotDuration - 1]>>
         \o shortSlots(Tail(s), slotDuration)

timeSlotsShort(date, cfg) ==
    shortSlots(hourLoop(date, cfg.startHour, cfg.endHour, cfg.slotDuration),
               cfg.slotDuration)

timeSlots(date, cfg) ==
    hourLoop(date, cfg.startHour, cfg.endHour, cfg.slotDuration)

(***************************************************************************)
(* Bounds of the slot-generator specification                              *)
(***************************************************************************)
FirstStartHour  == 7
LastStartHour   == 9
FirstEndHour    == 17
LastEndHour     == 19
MinSlotDuration == 5
MaxSlotDuration == 61
LastSlotDay     == 1

Configs ==
    [startHour    : FirstStartHour .. LastStartHour,
     endHour      : FirstEndHour .. LastEndHour,
     slotDuration : MinSlotDuration .. MaxSlotDuration]

\* The dates a view is given: midnight or 14:37 of a day.
SlotDates == {d * MinutesPerDay + tod : d \in 0 .. LastSlotDay, tod \in {0, 877}}

(***************************************************************************)
(* Idle values of the parts a specification does not exercise              *)
(***************************************************************************)
NoPosition    == [top |-> -1, height |-> -1]
NoAppointment == [id |-> 0]
NoSlot        == [start |-> -1, end |-> -1]
NoError       == "null"

SlotIdle ==
    /\ config = DEFAULT_CALENDAR_CONFIG
    /\ slotDate = 0
    /\ slots = <<>>
    /\ slotsBuilt = FALSE

DayIdle ==
    /\ dvAppointments = <<>>
    /\ dvDate = 0
    /\ dvRows = <<>>
    /\ dvRendered = FALSE

PosIdle ==
    /\ posAppointment = NoAppointment
    /\ posSlot = NoSlot
    /\ position = NoPosition

HookIdle ==
    /\ selectedDoctorId = ""
    /\ selectedDate = 0
    /\ view = "day"
    /\ searchQuery = <<>>
    /\ appointments = <<>>
    /\ loading = TRUE
    /\ error = NoError
    /\ fetchedAppointments = <<>>
    /\ effectPending = FALSE

WeekIdle ==
    /\ wvAppointments = <<>>
    /\ wvWeekStartDate = 0
    /\ wvToday = 0
    /\ wvCells = <<>>
    /\ wvRendered = FALSE

NoSpan == [computed |-> FALSE]

SpanIdle ==
    /\ spanAppointment = NoAppointment
    /\ spanRows = <<>>
    /\ span = NoSpan

(***************************************************************************)
(* Specification of the slot generator: a view is mounted with a date and  *)
(* a configuration, its timeSlots memo runs, and the date prop may change  *)
(* (which invalidates the memo in DayView).                                *)
(***************************************************************************)
SlotInit ==
    /\ config \in Configs
    /\ slotDate \in SlotDates
    /\ slots = <<>>
    /\ slotsBuilt = FALSE
    /\ DayIdle /\ PosIdle /\ HookIdle /\ WeekIdle /\ SpanIdle

BuildTimeSlots ==
    /\ ~slotsBuilt
    /\ slots' = timeSlots(slotDate, config)
    /\ slotsBuilt' = TRUE
    /\ UNCHANGED <<config, slotDate, dayVars, posVars, hookVars, weekVars, spanVars>>

ChangeSlotDate ==
    /\ slotsBuilt
    /\ \E d \in SlotDates :
          /\ d # slotDate
          /\ slotDate' = d
    /\ slots' = <<>>
    /\ slotsBuilt' = FALSE
    /\ UNCHANGED <<config, dayVars, posVars, hookVars, weekVars, spanVars>>

SlotNext == BuildTimeSlots \/ ChangeSlotDate

SlotSpec == SlotInit /\ [][SlotNext]_vars

(***************************************************************************)
(* Strings are sequences of characters.                                    *)
(***************************************************************************)
lowerChar(c) == IF c = "A" THEN "a" ELSE IF c = "B" THEN "b" ELSE c

\* String.prototype.toLowerCase
toLowerCase(s) == [i \in 1 .. Len(s) |-> lowerChar(s[i])]

\* String.prototype.includes
includes(s, q) ==
    \E i \in 0 .. Len(s) - Len(q) : SubSeq(s, i + 1, i + Len(q)) = q

isWhitespace(c) == c = " "

\* String.prototype.trim
RECURSIVE trimStart(_)
trimStart(s) ==
    IF s # <<>> /\ isWhitespace(Head(s)) THEN trimStart(Tail(s)) ELSE s

RECURSIVE trimEnd(_)
trimEnd(s) ==
    IF s # <<>> /\ isWhitespace(s[Len(s)])
    THEN trimEnd(SubSeq(s, 1, Len(s) - 1))
    ELSE s

trim(s) == trimEnd(trimStart(s))

(***************************************************************************)
(* Reference data of the store and the resolver                            *)
(***************************************************************************)
DoctorIds == {"d1", "d2"}

Doctors == [id : DoctorIds]

PatientName(patientId) ==
    IF patientId = "p1" THEN <<"A", "b">> ELSE <<"b", "B">>

PatientIds == {"p1", "p2"}

\* The display label of an appointment type (APPOINTMENT_TYPE_CONFIG[type].label).
TypeLabel(type) ==
    IF type = <<"a", "b">> THEN <<"A", " ", "a", "b">> ELSE <<"B">>

AppointmentTypes == {<<"a", "b">>, <<"b">>}

NoNotes == [some |-> FALSE]
Notes(text) == [some |-> TRUE, text |-> text]

\* appointmentService.getPopulatedAppointments: every appointment joined with
\* its doctor and patient records; every reference of the store resolves.
getPopulatedAppointments(appts) ==
    [i \in 1 .. Len(appts) |->
        [id        |-> appts[i].id,
         doctorId  |-> appts[i].doctorId,
         patientId |-> appts[i].patientId,
         startTime |-> appts[i].startTime,
         endTime   |-> appts[i].endTime,
         type      |-> appts[i].type,
         notes     |-> appts[i].notes,
         doctor    |-> [id |-> appts[i].doctorId],
         patient   |-> [id |-> appts[i].patientId,
                        name |-> PatientName(appts[i].patientId)]]]

(***************************************************************************)
(* DayView: bucketing and geometry                                         *)
(***************************************************************************)
\* Faulty variant of the bucketing: the slot's end is taken as inclusive.
getAppointmentsForSlotInclusive(populatedAppointments, slot) ==
    SelectSeq(populatedAppointments,
              LAMBDA appointment :
                  /\ appointment.startTime >= slot.start
                  /\ appointment.startTime <= slot.end)

\* Faulty variant of the bucketing: only the first appointment that starts in
\* the slot is listed (find in place of filter).
getAppointmentsForSlotFirst(populatedAppointments, slot) ==
    LET inSlot == SelectSeq(populatedAppointments,
                            LAMBDA appointment :
                                /\ appointment.startTime >= slot.start
                                /\ appointment.startTime < slot.end)
    IN  IF inSlot = <<>> THEN <<>> ELSE <<Head(inSlot)>>

getAppointmentsForSlot(populatedAppointments, slot) ==
    SelectSeq(populatedAppointments,
              LAMBDA appointment :
                  /\ appointment.startTime >= slot.start
                  /\ appointment.startTime < slot.end)

\* The timeline grid: for each slot, in order, the appointments listed under it.
DayViewRows(appts, date) ==
    LET ts        == timeSlots(date, DEFAULT_CALENDAR_CONFIG)
        populated == getPopulatedAppointments(appts)
    IN  [i \in 1 .. Len(ts) |-> getAppointmentsForSlot(populated, ts[i])]

slotHeight == 70

positionMargin == 4

minimumHeight == 20

Max(a, b) == IF a >= b THEN a ELSE b
Min(a, b) == IF a <= b THEN a ELSE b

\* Pixel quantities are exact rationals with denominator slotDuration: the
\* number n stands for n / slotDuration pixels, and px(k) is k whole pixels.
px(k) == k * DEFAULT_CALENDAR_CONFIG.slotDuration

\* Faulty variant of the position: the top offset is left out of the height clamp.
getAppointmentPositionNoTop(appointment, slot) ==
    LET minutesFromSlotStart       == appointment.startTime - slot.start
        appointmentDurationMinutes == appointment.endTime - appointment.startTime
        top    == minutesFromSlotStart * slotHeight
        height == Min(appointmentDurationMinutes * slotHeight,
                      px(slotHeight) - px(positionMargin))
    IN  [top |-> Max(0, top), height |-> Max(px(minimumHeight), height)]

getAppointmentPosition(appointment, slot) ==
    LET minutesFromSlotStart       == appointment.startTime - slot.start
        appointmentDurationMinutes == appointment.endTime - appointment.startTime
        \* (minutesFromSlotStart / slotDuration) * slotHeight
        top    == minutesFromSlotStart * slotHeight
        height == Min(appointmentDurationMinutes * slotHeight,
                      px(slotHeight) - top - px(positionMargin))
    IN  [top |-> Max(0, top), height |-> Max(px(minimumHeight), height)]

\* date.getTime(): milliseconds.
getTime(t) == t * 60000

\* Math.round(n / d) and Math.ceil(n / d) for d > 0: round goes to the nearest
\* integer, a half upwards.
MathRound(n, d) == (2 * n + d) \div (2 * d)
MathCeil(n, d)  == -((-n) \div d)
MathFloor(n, d) == n \div d

getAppointmentDuration(appointment) ==
    MathRound(getTime(appointment.endTime) - getTime(appointment.startTime),
              1000 * 60)

\* Faulty variant of the span: the quotient is rounded down.
getAppointmentSlotSpanFloor(appointment) ==
    LET duration == getAppointmentDuration(appointment)
    IN  MathFloor(duration, DEFAULT_CALENDAR_CONFIG.slotDuration)

getAppointmentSlotSpan(appointment) ==
    LET duration == getAppointmentDuration(appointment)
    IN  MathCeil(duration, DEFAULT_CALENDAR_CONFIG.slotDuration)

(***************************************************************************)
(* Bounds of the DayView specification                                     *)
(***************************************************************************)
MaxDayAppointments == 2

DayViewHours     == {7, 9, 17, 18}
DayViewMinutes   == {0, 15, 20, 29, 30, 59}
DayViewDurations == {20, 90}

\* Appointments of day 0 for the doctor shown.
DayViewAppointment(id, hour, minute, duration) ==
    [id        |-> id,
     doctorId  |-> "d1",
     patientId |-> "p1",
     startTime |-> hour * 60 + minute,
     endTime   |-> hour * 60 + minute + duration,
     type      |-> <<"b">>,
     notes     |-> NoNotes]

\* The lists a day view is handed: ids are unique and the list is in ascending
\* start order, as the hook commits it.
SortedByStart(appts) ==
    \A i \in 1 .. Len(appts) - 1 : appts[i].startTime <= appts[i + 1].startTime

DayViewLists ==
    UNION {
        {l \in [1 .. n -> DayViewHours \X DayViewMinutes \X DayViewDurations] :
            \A i \in 1 .. n - 1 :
                l[i][1] * 60 + l[i][2] <= l[i + 1][1] * 60 + l[i + 1][2]}
        : n \in 0 .. MaxDayAppointments }

ListOf(l) ==
    [i \in 1 .. Len(l) |-> DayViewAppointment(i, l[i][1], l[i][2], l[i][3])]

(***************************************************************************)
(* Specification of DayView: the component renders the props it is given;  *)
(* the parent may narrow the list (search) or change the date.             *)
(***************************************************************************)
DayInit ==
    /\ dvDate \in SlotDates
    /\ \E l \in DayViewLists : dvAppointments = ListOf(l)
    /\ dvRows = <<>>
    /\ dvRendered = FALSE
    /\ SlotIdle /\ PosIdle /\ HookIdle /\ WeekIdle /\ SpanIdle

DayViewRender ==
    /\ ~dvRendered
    /\ dvRows' = DayViewRows(dvAppointments, dvDate)
    /\ dvRendered' = TRUE
    /\ UNCHANGED <<dvAppointments, dvDate, slotVars, posVars, hookVars, weekVars, spanVars>>

RemoveAt(s, k) == [i \in 1 .. Len(s) - 1 |-> IF i < k THEN s[i] ELSE s[i + 1]]

DayViewNarrowed ==
    /\ dvRendered
    /\ \E k \in 1 .. Len(dvAppointments) :
          dvAppointments' = RemoveAt(dvAppointments, k)
    /\ dvRows' = <<>>
    /\ dvRendered' = FALSE
    /\ UNCHANGED <<dvDate, slotVars, posVars, hookVars, weekVars, spanVars>>

DayViewDateChanged ==
    /\ dvRendered
    /\ \E d \in SlotDates :
          /\ d # dvDate
          /\ dvDate' = d
    /\ dvRows' = <<>>
    /\ dvRendered' = FALSE
    /\ UNCHANGED <<dvAppointments, slotVars, posVars, hookVars, weekVars, spanVars>>

DayNext == DayViewRender \/ DayViewNarrowed \/ DayViewDateChanged

DaySpec == DayInit /\ [][DayNext]_vars

(***************************************************************************)
(* Specification of getAppointmentPosition: an appointment of day 0 and    *)
(* the slot the day view lists it under.                                   *)
(***************************************************************************)
MaxPositionDuration == 100

PositionHours == {8, 9, 17}

PositionAppointments ==
    {[id        |-> 1,
      doctorId  |-> "d1",
      patientId |-> "p1",
      startTime |-> h * 60 + m,
      endTime   |-> h * 60 + m + d,
      type      |-> <<"b">>,
      notes     |-> NoNotes] :
        h \in PositionHours, m \in 0 .. 59, d \in -1 .. MaxPositionDuration}

\* The slots of day 0.
PositionSlots == timeSlots(0, DEFAULT_CALENDAR_CONFIG)

PosInit ==
    /\ posAppointment \in PositionAppointments
    /\ \E i \in 1 .. Len(PositionSlots) :
          /\ getAppointmentsForSlot(<<posAppointment>>, PositionSlots[i]) # <<>>
          /\ posSlot = PositionSlots[i]
    /\ position = NoPosition
    /\ SlotIdle /\ DayIdle /\ HookIdle /\ WeekIdle /\ SpanIdle

ComputePosition ==
    /\ position = NoPosition
    /\ position' = getAppointmentPosition(posAppointment, posSlot)
    /\ UNCHANGED <<posAppointment, posSlot, slotVars, dayVars, hookVars, weekVars, spanVars>>

PosNext == ComputePosition

PosSpec == PosInit /\ [][PosNext]_vars

(***************************************************************************)
(* Specification of getAppointmentDuration and getAppointmentSlotSpan: the *)
(* day view is handed one appointment of day 0 that ends after it starts,  *)
(* lists it under its slot and computes its duration and its span.         *)
(***************************************************************************)
MaxSpanDuration == 95

SpanHours   == {8, 9, 17}
SpanMinutes == {0, 15, 30, 59}

SpanAppointments ==
    {[id        |-> 1,
      doctorId  |-> "d1",
      patientId |-> "p1",
      startTime |-> h * 60 + m,
      endTime   |-> h * 60 + m + d,
      type      |-> <<"b">>,
      notes     |-> NoNotes] :
        h \in SpanHours, m \in SpanMinutes, d \in 1 .. MaxSpanDuration}

SpanInit ==
    /\ spanAppointment \in SpanAppointments
    /\ spanRows = <<>>
    /\ span = NoSpan
    /\ SlotIdle /\ DayIdle /\ PosIdle /\ HookIdle /\ WeekIdle

ComputeSpan ==
    /\ ~span.computed
    /\ spanRows' = DayViewRows(<<spanAppointment>>, 0)
    /\ span' = [computed |-> TRUE,
                duration |-> getAppointmentDuration(spanAppointment),
                slots    |-> getAppointmentSlotSpan(spanAppointment)]
    /\ UNCHANGED <<spanAppointment, slotVars, dayVars, posVars, hookVars, weekVars>>

SpanNext == ComputeSpan

SpanSpec == SpanInit /\ [][SpanNext]_vars

(***************************************************************************)
(* The store behind appointmentService.  What it holds is not fixed: a     *)
(* query answers with any list of at most MaxFetched appointments of the   *)
(* doctor that lie in the queried day or range, in the store's own order.  *)
(***************************************************************************)
MaxFetched == 2

\* Appointments the store may hold on a day: start (minute of the day),
\* duration, patient, type and notes.
Templates ==
    << [tod |-> 9 * 60,      duration |-> 30, patientId |-> "p1",
        type |-> <<"a", "b">>, notes |-> NoNotes],
       [tod |-> 9 * 60 + 15, duration |-> 45, patientId |-> "p2",
        type |-> <<"b">>,      notes |-> Notes(<<"b", " ", "a">>)],
       [tod |-> 9 * 60 + 15, duration |-> 20, patientId |-> "p2",
        type |-> <<"b">>,      notes |-> Notes(<<"B", "B">>)],
       [tod |-> 10 * 60,     duration |-> 0,  patientId |-> "p2",
        type |-> <<"a", "b">>, notes |-> Notes(<<>>)] >>

StoredAppointment(k, doctorId, day) ==
    [id        |-> day * 10 + k,
     doctorId  |-> doctorId,
     patientId |-> Templates[k].patientId,
     startTime |-> day * MinutesPerDay + Templates[k].tod,
     endTime   |-> day * MinutesPerDay + Templates[k].tod + Templates[k].duration,
     type      |-> Templates[k].type,
     notes     |-> Templates[k].notes]

StoreHolds(doctorId, days) ==
    IF doctorId \in DoctorIds
    THEN {StoredAppointment(k, doctorId, d) : k \in 1 .. Len(Templates), d \in days}
    ELSE {}

\* The lists of at most n distinct elements of S.
ListsOver(S, n) ==
    UNION { {l \in [1 .. k -> S] : \A i, j \in 1 .. k : i # j => l[i] # l[j]}
            : k \in 0 .. n }

\* appointmentService.getAppointmentsByDoctorAndDate: the possible answers.
getAppointmentsByDoctorAndDate(doctorId, date) ==
    ListsOver(StoreHolds(doctorId, {date \div MinutesPerDay}), MaxFetched)

\* appointmentService.getAppointmentsByDoctorAndDateRange: the possible answers,
\* appointments intersecting [startDate, endDate].
getAppointmentsByDoctorAndDateRange(doctorId, startDate, endDate) ==
    ListsOver({a \in StoreHolds(doctorId, {startDate \div MinutesPerDay,
                                           startDate \div MinutesPerDay + 6}) :
                  a.startTime <= endDate /\ a.endTime >= startDate},
              MaxFetched)

\* appointmentService.sortAppointmentsByTime: ascending by startTime, stable.
RECURSIVE insertByTime(_, _)
insertByTime(sorted, a) ==
    IF sorted = <<>> THEN <<a>>
    ELSE IF sorted[Len(sorted)].startTime <= a.startTime
         THEN Append(sorted, a)
         ELSE Append(insertByTime(SubSeq(sorted, 1, Len(sorted) - 1), a),
                     sorted[Len(sorted)])

RECURSIVE sortAppointmentsByTime(_)
sortAppointmentsByTime(list) ==
    IF list = <<>> THEN <<>>
    ELSE insertByTime(sortAppointmentsByTime(SubSeq(list, 1, Len(list) - 1)),
                      list[Len(list)])

(***************************************************************************)
(* ScheduleView                                                            *)
(***************************************************************************)
\* date.getDay(): 0 is Sunday; day 0 of the model is a Monday.
getDay(t) == ((t \div MinutesPerDay) + 1) % 7

\* date-fns startOfWeek(date, { weekStartsOn }).
startOfWeek(date, weekStartsOn) ==
    LET day  == getDay(date)
        diff == (IF day < weekStartsOn THEN 7 ELSE 0) + day - weekStartsOn
    IN  startOfDay(date) - diff * MinutesPerDay

\* Faulty variant of getWeekStart: the weekStartsOn option is left out and the
\* week starts on Sunday.
getWeekStartFromSunday(date) == startOfWeek(date, 0)

getWeekStart(date) == startOfWeek(date, 1)

addDays(date, n) == date + n * MinutesPerDay
subDays(date, n) == date - n * MinutesPerDay

weekStartDate == getWeekStart(selectedDate)

\* `query` matches a populated appointment.
matchesQuery(appointment, query) ==
    LET patientName     == toLowerCase(appointment.patient.name)
        appointmentType == toLowerCase(appointment.type)
        notes           == IF appointment.notes.some
                           THEN toLowerCase(appointment.notes.text)
                           ELSE <<>>
    IN  \/ includes(patientName, query)
        \/ includes(appointmentType, query)
        \/ includes(notes, query)

\* Faulty variant of the filter: the query is not trimmed before the emptiness test.
filterAppointmentsNoTrim(rawAppointments, query) ==
    IF query = <<>> THEN rawAppointments
    ELSE LET filteredPopulated ==
                 SelectSeq(getPopulatedAppointments(rawAppointments),
                           LAMBDA appointment :
                               matchesQuery(appointment, toLowerCase(query)))
         IN  SelectSeq(rawAppointments,
                       LAMBDA apt : \E k \in 1 .. Len(filteredPopulated) :
                                       filteredPopulated[k].id = apt.id)

\* Faulty variant of the filter: the query is compared without lower-casing it.
filterAppointmentsCaseSensitive(rawAppointments, query) ==
    IF trim(query) = <<>> THEN rawAppointments
    ELSE LET filteredPopulated ==
                 SelectSeq(getPopulatedAppointments(rawAppointments),
                           LAMBDA appointment : matchesQuery(appointment, query))
         IN  SelectSeq(rawAppointments,
                       LAMBDA apt : \E k \in 1 .. Len(filteredPopulated) :
                                       filteredPopulated[k].id = apt.id)

\* The `appointments` memo of ScheduleView.
filterAppointments(rawAppointments, query) ==
    IF trim(query) = <<>> THEN rawAppointments
    ELSE LET filteredPopulated ==
                 SelectSeq(getPopulatedAppointments(rawAppointments),
                           LAMBDA appointment :
                               matchesQuery(appointment, toLowerCase(query)))
         IN  SelectSeq(rawAppointments,
                       LAMBDA apt : \E k \in 1 .. Len(filteredPopulated) :
                                       filteredPopulated[k].id = apt.id)

\* The list ScheduleView hands to DayView or WeekView.
viewAppointments == filterAppointments(appointments, searchQuery)

(***************************************************************************)
(* useAppointments: the fetch effect                                       *)
(***************************************************************************)
\* Faulty variant of the commit: the fetched list is committed as the store returned it.
sortedAppointmentsUnsorted(fetched) == fetched

\* What a successful cycle passes to setAppointments.
sortedAppointments(fetched) == sortAppointmentsByTime(fetched)

\* The arguments the hook is called with in the current render.
startDateParam == IF view = "week" THEN weekStartDate ELSE -1
endDateParam   == IF view = "week" THEN addDays(weekStartDate, 6) ELSE -1
hasRange       == view = "week"

\* useWeekViewAppointments: the range it builds from weekStartDate.  The end is
\* 23:59:59.999 of the sixth day after; in whole minutes, its minute 23:59.
useWeekViewAppointments(weekStart) ==
    [startDate |-> weekStart,
     endDate   |-> setHours(addDays(weekStart, 6), 23, 59)]

\* The answers the store may give to the query of the current render.
StoreAnswers ==
    IF hasRange
    THEN getAppointmentsByDoctorAndDateRange(selectedDoctorId, startDateParam,
                                             endDateParam)
    ELSE getAppointmentsByDoctorAndDate(selectedDoctorId, selectedDate)

\* appointmentService.getDoctorById: the doctor's record, or a NotFound failure
\* for an id the store does not hold (the empty id among them).
getDoctorById(doctorId) ==
    IF doctorId \in DoctorIds
    THEN [threw |-> FALSE, value |-> [id |-> doctorId]]
    ELSE [threw |-> TRUE]

Undefined == [undefined |-> TRUE]

\* The doctor memo of useAppointments: try { getDoctorById } catch { undefined }.
doctor ==
    LET found == getDoctorById(selectedDoctorId)
    IN  IF found.threw THEN Undefined ELSE found.value

\* What ScheduleView returns in the current render.
screen ==
    IF selectedDoctorId = "" THEN "prompt"
    ELSE IF loading THEN "loading"
    ELSE IF error # NoError THEN "error"
    ELSE "calendar"

\* DayView and WeekView render their empty state when the list they are
\* handed is empty.
emptyStateShown == screen = "calendar" /\ Len(viewAppointments) = 0

(***************************************************************************)
(* Bounds of the ScheduleView specification                                *)
(***************************************************************************)
LastDay     == 8
MaxQueryLen == 2

QueryChars == {"A", " "}

\* new Date(): Thursday of the first week, 14:37.
Today == 3 * MinutesPerDay + 877

InCalendar(date) == date >= 0 /\ date < (LastDay + 1) * MinutesPerDay

(***************************************************************************)
(* Specification of the schedule page: SchedulePage state, ScheduleView    *)
(* handlers and the fetch effect of useAppointments.  The effect runs      *)
(* after the render that changed one of its dependencies; its body has no  *)
(* await, so a cycle runs to completion in one step.                       *)
(***************************************************************************)
Init ==
    /\ selectedDoctorId = ""
    /\ selectedDate = Today
    /\ view = "day"
    /\ searchQuery = <<>>
    /\ appointments = <<>>
    /\ loading = TRUE
    /\ error = NoError
    /\ fetchedAppointments = <<>>
    /\ effectPending = TRUE
    /\ SlotIdle /\ DayIdle /\ PosIdle /\ WeekIdle /\ SpanIdle

\* Handlers run once the effect of the last render has been flushed; in week
\* view the effect is scheduled again by every render.
HandlersRun == ~effectPending \/ view = "week"

ControlsShown == selectedDoctorId # ""

\* Faulty variant of the effect: the catch block records the error but keeps
\* the list of the previous cycle.
fetchAppointmentsKeepsStale ==
    /\ effectPending
    /\ \/ \E answer \in StoreAnswers :
             /\ fetchedAppointments' = answer
             /\ appointments' = sortedAppointments(answer)
             /\ error' = NoError
       \/ /\ error' = "Error"
          /\ UNCHANGED <<fetchedAppointments, appointments>>
    /\ loading' = FALSE
    /\ effectPending' = hasRange
    /\ UNCHANGED <<selectedDoctorId, selectedDate, view, searchQuery,
                   slotVars, dayVars, posVars, weekVars, spanVars>>

\* Faulty variant of the effect: loading is cleared at the end of the try
\* block instead of in a finally block.
fetchAppointmentsNoFinally ==
    /\ effectPending
    /\ \/ \E answer \in StoreAnswers :
             /\ fetchedAppointments' = answer
             /\ appointments' = sortedAppointments(answer)
             /\ error' = NoError
             /\ loading' = FALSE
       \/ /\ fetchedAppointments' = <<>>
          /\ appointments' = <<>>
          /\ error' = "Error"
          /\ loading' = TRUE
    /\ effectPending' = hasRange
    /\ UNCHANGED <<selectedDoctorId, selectedDate, view, searchQuery,
                   slotVars, dayVars, posVars, weekVars, spanVars>>

fetchAppointments ==
    /\ effectPending
    /\ \/ \E answer \in StoreAnswers :
             /\ fetchedAppointments' = answer
             /\ appointments' = sortedAppointments(answer)
             /\ error' = NoError
       \/ /\ fetchedAppointments' = <<>>
          /\ appointments' = <<>>
          /\ error' = "Error"
    /\ loading' = FALSE
    \* endDate is rebuilt by addDays on every render, so in week view the
    \* render that follows the commit schedules the effect again
    /\ effectPending' = hasRange
    /\ UNCHANGED <<selectedDoctorId, selectedDate, view, searchQuery,
                   slotVars, dayVars, posVars, weekVars, spanVars>>

onDoctorChange ==
    /\ HandlersRun
    /\ \E doctorId \in DoctorIds \cup {""} :
          /\ doctorId # selectedDoctorId
          /\ selectedDoctorId' = doctorId
    /\ effectPending' = TRUE
    /\ UNCHANGED <<selectedDate, view, searchQuery, appointments, loading, error,
                   fetchedAppointments, slotVars, dayVars, posVars, weekVars, spanVars>>

onDateChange(date) ==
    /\ HandlersRun
    /\ ControlsShown
    /\ InCalendar(date)
    /\ selectedDate' = date
    /\ effectPending' = TRUE
    /\ UNCHANGED <<selectedDoctorId, view, searchQuery, appointments, loading,
                   error, fetchedAppointments, slotVars, dayVars, posVars, weekVars, spanVars>>

handlePreviousDate ==
    IF view = "day"
    THEN onDateChange(subDays(selectedDate, 1))
    ELSE onDateChange(subDays(selectedDate, 7))

handleNextDate ==
    IF view = "day"
    THEN onDateChange(addDays(selectedDate, 1))
    ELSE onDateChange(addDays(selectedDate, 7))

handleToday == onDateChange(Today)

\* Faulty variant of the view switch: the range is not among the effect's
\* dependencies, so switching the view schedules no fetch.
onViewChangeNoEffect ==
    /\ HandlersRun
    /\ ControlsShown
    /\ \E v \in {"day", "week"} :
          /\ v # view
          /\ view' = v
    /\ UNCHANGED <<selectedDoctorId, selectedDate, searchQuery, appointments,
                   loading, error, fetchedAppointments, effectPending,
                   slotVars, dayVars, posVars, weekVars, spanVars>>

onViewChange ==
    /\ HandlersRun
    /\ ControlsShown
    /\ \E v \in {"day", "week"} :
          /\ v # view
          /\ view' = v
    /\ effectPending' = TRUE
    /\ UNCHANGED <<selectedDoctorId, selectedDate, searchQuery, appointments,
                   loading, error, fetchedAppointments, slotVars, dayVars, posVars, weekVars, spanVars>>

\* Faulty variant of the search box: the query is among the dependencies of
\* the fetch effect, so every change of it schedules a fetch.
setSearchQueryRefetches ==
    /\ HandlersRun
    /\ ControlsShown
    /\ \/ \E c \in QueryChars :
             /\ Len(searchQuery) < MaxQueryLen
             /\ searchQuery' = Append(searchQuery, c)
       \/ /\ searchQuery # <<>>
          /\ searchQuery' = SubSeq(searchQuery, 1, Len(searchQuery) - 1)
       \/ /\ searchQuery # <<>>
          /\ searchQuery' = <<>>
    /\ effectPending' = TRUE
    /\ UNCHANGED <<selectedDoctorId, selectedDate, view, appointments, loading,
                   error, fetchedAppointments,
                   slotVars, dayVars, posVars, weekVars, spanVars>>

\* The search box: a character typed or deleted, or the clear button.
setSearchQuery ==
    /\ HandlersRun
    /\ ControlsShown
    /\ \/ \E c \in QueryChars :
             /\ Len(searchQuery) < MaxQueryLen
             /\ searchQuery' = Append(searchQuery, c)
       \/ /\ searchQuery # <<>>
          /\ searchQuery' = SubSeq(searchQuery, 1, Len(searchQuery) - 1)
       \/ /\ searchQuery # <<>>
          /\ searchQuery' = <<>>
    /\ UNCHANGED <<selectedDoctorId, selectedDate, view, appointments, loading,
                   error, fetchedAppointments, effectPending,
                   slotVars, dayVars, posVars, weekVars, spanVars>>

Next ==
    \/ fetchAppointments
    \/ onDoctorChange
    \/ handlePreviousDate
    \/ handleNextDate
    \/ handleToday
    \/ onViewChange
    \/ setSearchQuery

Spec == Init /\ [][Next]_vars

(***************************************************************************)
(* Specification of ScheduleView under any parent: the selectedDoctorId    *)
(* prop is a string, and a parent other than SchedulePage's selector may   *)
(* pass an id the store does not hold.                                     *)
(***************************************************************************)
UnknownDoctorId == "d9"

DoctorIdProps == DoctorIds \cup {"", UnknownDoctorId}

PropsInit ==
    /\ selectedDoctorId \in DoctorIdProps
    /\ selectedDate = Today
    /\ view = "day"
    /\ searchQuery = <<>>
    /\ appointments = <<>>
    /\ loading = TRUE
    /\ error = NoError
    /\ fetchedAppointments = <<>>
    /\ effectPending = TRUE
    /\ SlotIdle /\ DayIdle /\ PosIdle /\ WeekIdle /\ SpanIdle

\* The parent renders ScheduleView with another selectedDoctorId.
selectedDoctorIdChanged ==
    /\ HandlersRun
    /\ \E doctorId \in DoctorIdProps :
          /\ doctorId # selectedDoctorId
          /\ selectedDoctorId' = doctorId
    /\ effectPending' = TRUE
    /\ UNCHANGED <<selectedDate, view, searchQuery, appointments, loading, error,
                   fetchedAppointments, slotVars, dayVars, posVars, weekVars, spanVars>>

PropsNext ==
    \/ fetchAppointments
    \/ selectedDoctorIdChanged
    \/ handlePreviousDate
    \/ handleNextDate
    \/ handleToday
    \/ onViewChange
    \/ setSearchQuery

PropsSpec == PropsInit /\ [][PropsNext]_vars

(***************************************************************************)
(* WeekView: the days of the week and the cells of the grid                *)
(***************************************************************************)
\* The weekDays memo: addDays(weekStartDate, i) for i = 0 .. 6.
weekDays(weekStart) == [i \in 1 .. 7 |-> addDays(weekStart, i - 1)]

\* The timeSlots memo of WeekView: the slots of the day the component was
\* mounted on (new Date()); its dependency list is empty.
weekTimeSlots(today) == timeSlots(today, DEFAULT_CALENDAR_CONFIG)

\* date-fns isSameDay.
isSameDay(a, b) == startOfDay(a) = startOfDay(b)

getAppointmentsForDay(populatedAppointments, date) ==
    SelectSeq(populatedAppointments,
              LAMBDA appointment : isSameDay(appointment.startTime, date))

\* Faulty variant of the cell: the slot's own start and end are compared, not
\* re-anchored on the day of the column.
getAppointmentsForDayAndSlotNotAnchored(populatedAppointments, date, slot) ==
    LET dayAppointments == getAppointmentsForDay(populatedAppointments, date)
    IN  SelectSeq(dayAppointments,
                  LAMBDA appointment :
                      /\ appointment.startTime >= slot.start
                      /\ appointment.startTime < slot.end)

getAppointmentsForDayAndSlot(populatedAppointments, date, slot) ==
    LET dayAppointments == getAppointmentsForDay(populatedAppointments, date)
        slotStart == setHours(date, getHours(slot.start), getMinutes(slot.start))
        slotEnd   == setHours(date, getHours(slot.end), getMinutes(slot.end))
    IN  SelectSeq(dayAppointments,
                  LAMBDA appointment :
                      /\ appointment.startTime >= slotStart
                      /\ appointment.startTime < slotEnd)

\* The grid: for each day of the week and each slot, the appointments of the cell.
WeekViewCells(appts, weekStart, today) ==
    LET days      == weekDays(weekStart)
        ts        == weekTimeSlots(today)
        populated == getPopulatedAppointments(appts)
    IN  [d \in 1 .. 7 |->
            [i \in 1 .. Len(ts) |->
                getAppointmentsForDayAndSlot(populated, days[d], ts[i])]]

(***************************************************************************)
(* Bounds of the WeekView specification                                    *)
(***************************************************************************)
MaxWeekAppointments == 2

\* Monday and Sunday of the first week, Monday of the second.
WeekViewDays    == {0, 6, 7}
WeekViewHours   == {7, 9, 17}
WeekViewMinutes == {0, 15, 20, 30}

WeekViewAppointment(id, day, hour, minute) ==
    [id        |-> id,
     doctorId  |-> "d1",
     patientId |-> "p1",
     startTime |-> day * MinutesPerDay + hour * 60 + minute,
     endTime   |-> day * MinutesPerDay + hour * 60 + minute + 30,
     type      |-> <<"b">>,
     notes     |-> NoNotes]

\* The lists a week view is handed, in ascending start order as the hook
\* commits them.
WeekViewLists ==
    UNION {
        {l \in [1 .. n -> WeekViewDays \X WeekViewHours \X WeekViewMinutes] :
            \A i \in 1 .. n - 1 :
                WeekViewAppointment(i, l[i][1], l[i][2], l[i][3]).startTime
                    <= WeekViewAppointment(i, l[i + 1][1], l[i + 1][2],
                                           l[i + 1][3]).startTime}
        : n \in 0 .. MaxWeekAppointments }

WeekListOf(l) ==
    [i \in 1 .. Len(l) |-> WeekViewAppointment(i, l[i][1], l[i][2], l[i][3])]

\* The Mondays the view is opened on.
WeekStarts == {0, 7 * MinutesPerDay}

\* The moment of mounting: inside the first week, or in the second.
WeekTodays == {Today, addDays(Today, 7) + 160}

(***************************************************************************)
(* Specification of WeekView: the component is mounted, renders the props  *)
(* it is given, and the parent may narrow the list (search) or move to     *)
(* another week; the slots stay those of the day of mounting.              *)
(***************************************************************************)
WeekInit ==
    /\ wvWeekStartDate \in WeekStarts
    /\ wvToday \in WeekTodays
    /\ \E l \in WeekViewLists : wvAppointments = WeekListOf(l)
    /\ wvCells = <<>>
    /\ wvRendered = FALSE
    /\ SlotIdle /\ DayIdle /\ PosIdle /\ HookIdle /\ SpanIdle

WeekViewRender ==
    /\ ~wvRendered
    /\ wvCells' = WeekViewCells(wvAppointments, wvWeekStartDate, wvToday)
    /\ wvRendered' = TRUE
    /\ UNCHANGED <<wvAppointments, wvWeekStartDate, wvToday,
                   slotVars, dayVars, posVars, hookVars, spanVars>>

WeekViewNarrowed ==
    /\ wvRendered
    /\ \E k \in 1 .. Len(wvAppointments) :
          wvAppointments' = RemoveAt(wvAppointments, k)
    /\ wvCells' = <<>>
    /\ wvRendered' = FALSE
    /\ UNCHANGED <<wvWeekStartDate, wvToday, slotVars, dayVars, posVars, hookVars, spanVars>>

WeekViewWeekChanged ==
    /\ wvRendered
    /\ \E w \in WeekStarts :
          /\ w # wvWeekStartDate
          /\ wvWeekStartDate' = w
    /\ wvCells' = <<>>
    /\ wvRendered' = FALSE
    /\ UNCHANGED <<wvAppointments, wvToday, slotVars, dayVars, posVars, hookVars, spanVars>>

WeekNext == WeekViewRender \/ WeekViewNarrowed \/ WeekViewWeekChanged

WeekSpec == WeekInit /\ [][WeekNext]_vars

(***************************************************************************)
(* Properties of the slot generator                                        *)
(***************************************************************************)
Divides60(d) == 60 % d = 0

Overlap(a, b) == a.start < b.end /\ b.start < a.end

hourStart(date, hour) == startOfDay(date) + hour * 60

OrderedByStart(s) ==
    \A i \in 1 .. Len(s) - 1 : s[i].start < s[i + 1].start

EverySlotSpans(s, d) ==
    \A i \in 1 .. Len(s) : s[i].end - s[i].start = d

NoTwoOverlap(s) ==
    \A i, j \in 1 .. Len(s) : i # j => ~Overlap(s[i], s[j])

NoneEndsAfter(s, t) ==
    \A i \in 1 .. Len(s) : s[i].end <= t

\* C1: for the config (8, 18, 30) the generator returns exactly 20 slots that
\* tile [8:00, 18:00) of the date: the first starts at 8:00, the last ends at
\* 18:00 and each slot ends where the next starts; and for every config with
\* startHour < endHour whose slotDuration divides 60 the number of slots is
\* (endHour - startHour) * 60 / slotDuration.
C1_SlotsTileWorkingHours ==
    slotsBuilt =>
        /\ config = DEFAULT_CALENDAR_CONFIG =>
              /\ Len(slots) = 20
              /\ slots[1].start = hourStart(slotDate, 8)
              /\ slots[Len(slots)].end = hourStart(slotDate, 18)
              /\ \A i \in 1 .. Len(slots) - 1 : slots[i].end = slots[i + 1].start
        /\ (config.startHour < config.endHour /\ Divides60(config.slotDuration)) =>
              Len(slots) * config.slotDuration
                  = (config.endHour - config.startHour) * 60

C1_Witness ==
    /\ slotsBuilt
    /\ config = DEFAULT_CALENDAR_CONFIG
    /\ Len(slots) = 20
    /\ slotDate % MinutesPerDay # 0

\* C2 as stated: for every config with startHour < endHour and slotDuration > 0,
\* dividing 60 or not, the slots are ordered by start, each spans slotDuration,
\* no two overlap and none ends after endHour:00.
C2_AsStated ==
    (slotsBuilt /\ config.startHour < config.endHour /\ config.slotDuration > 0) =>
        /\ OrderedByStart(slots)
        /\ EverySlotSpans(slots, config.slotDuration)
        /\ NoTwoOverlap(slots)
        /\ NoneEndsAfter(slots, hourStart(slotDate, config.endHour))

\* C2 amended: for every such config the slots are ordered by start and each
\* spans slotDuration; no two overlap and none ends after endHour:00 when
\* slotDuration divides 60; when it does not, the last slot ends after
\* endHour:00 and, in a window of more than one hour, two slots overlap.
C2_SlotsOrderedAndSpan ==
    (slotsBuilt /\ config.startHour < config.endHour /\ config.slotDuration > 0) =>
        /\ OrderedByStart(slots)
        /\ EverySlotSpans(slots, config.slotDuration)
        /\ Divides60(config.slotDuration) =>
              /\ NoTwoOverlap(slots)
              /\ NoneEndsAfter(slots, hourStart(slotDate, config.endHour))
        /\ ~Divides60(config.slotDuration) =>
              /\ slots[Len(slots)].end > hourStart(slotDate, config.endHour)
              /\ config.endHour - config.startHour > 1 => ~NoTwoOverlap(slots)

C2_Witness ==
    /\ slotsBuilt
    /\ config.slotDuration = 45
    /\ Len(slots) > 2
    /\ Overlap(slots[2], slots[3])

(***************************************************************************)
(* Properties of the day view's bucketing                                  *)
(***************************************************************************)
\* The appointment with this id is listed under slot i of the rendered grid.
ListedUnder(id, i) ==
    \E k \in 1 .. Len(dvRows[i]) : dvRows[i][k].id = id

HomeSlots(id) == {i \in 1 .. Len(dvRows) : ListedUnder(id, i)}

dvSlots == timeSlots(dvDate, DEFAULT_CALENDAR_CONFIG)

\* C3: in the day view an appointment A is listed under slot S if and only if
\* S.start <= A.startTime < S.end; no appointment is listed under two slots,
\* and one that starts exactly on a slot boundary is listed under the slot that
\* begins there, not under the one that ends there.
C3_BucketedByStart ==
    dvRendered =>
        LET ts == dvSlots IN
        /\ Len(dvRows) = Len(ts)
        /\ \A k \in 1 .. Len(dvAppointments) :
              LET A == dvAppointments[k] IN
              /\ \A i \in 1 .. Len(ts) :
                    /\ ListedUnder(A.id, i)
                          <=> (ts[i].start <= A.startTime /\ A.startTime < ts[i].end)
                    /\ A.startTime = ts[i].start => ListedUnder(A.id, i)
                    /\ A.startTime = ts[i].end => ~ListedUnder(A.id, i)
              /\ Cardinality(HomeSlots(A.id)) <= 1

C3_Witness ==
    /\ dvRendered
    /\ \E k \in 1 .. Len(dvAppointments) :
          /\ dvAppointments[k].startTime = hourStart(dvDate, 9) + 30
          /\ HomeSlots(dvAppointments[k].id) = {4}

\* C4: every appointment in the list handed to the day view is assigned to
\* exactly one home slot, never zero, whatever its start time on that day and
\* however long it runs.
C4_ExactlyOneHomeSlot ==
    dvRendered =>
        \A k \in 1 .. Len(dvAppointments) :
            startOfDay(dvAppointments[k].startTime) = startOfDay(dvDate)
                => Cardinality(HomeSlots(dvAppointments[k].id)) = 1

(***************************************************************************)
(* Properties of getAppointmentPosition                                    *)
(***************************************************************************)
posMinutesFromSlotStart == posAppointment.startTime - posSlot.start
posDuration             == posAppointment.endTime - posAppointment.startTime

\* C8: for slotDuration = 30 and rowHeight = 70 the result is
\* top = max(0, (minutes from slot start / 30) * 70) and
\* height = max(20, min((duration / 30) * 70, 70 - top - 4)); the appointment
\* 9:15-10:00 in slot [9:00, 9:30) gets top = 35 and height = 31.  The result
\* is a function of the appointment and its slot alone.  (Both sides are in
\* units of 1/30 pixel: (m / 30) * 70 pixels is the number m * 70.)
C8_PositionFormula ==
    position # NoPosition =>
        /\ position.top = Max(0, posMinutesFromSlotStart * 70)
        /\ position.height
              = Max(20 * 30, Min(posDuration * 70, 70 * 30 - position.top - 4 * 30))
        /\ (/\ posAppointment.startTime = 9 * 60 + 15
            /\ posAppointment.endTime = 10 * 60
            /\ posSlot = [start |-> 9 * 60, end |-> 9 * 60 + 30])
              => position = [top |-> px(35), height |-> px(31)]

C8_Witness ==
    /\ position = [top |-> px(35), height |-> px(31)]
    /\ posAppointment.startTime = 9 * 60 + 15
    /\ posAppointment.endTime = 10 * 60
    /\ posSlot = [start |-> 9 * 60, end |-> 9 * 60 + 30]

\* C9: for every appointment with startTime < endTime placed in its home slot
\* the position does not overflow the slot: top + height <= rowHeight (70),
\* for every start minute within the slot.
C9_NoOverflow ==
    (position # NoPosition /\ posAppointment.startTime < posAppointment.endTime) =>
        position.top + position.height <= px(70)

(***************************************************************************)
(* Properties of the fetch cycle and of the search filter                  *)
(***************************************************************************)
IndexIn(list, a) == CHOOSE i \in 1 .. Len(list) : list[i] = a

IsPermutationOf(out, inp) ==
    /\ Len(out) = Len(inp)
    /\ \A i \in 1 .. Len(inp) :
          Cardinality({j \in 1 .. Len(out) : out[j] = inp[i]}) = 1

IsStableSortOf(out, inp) ==
    /\ IsPermutationOf(out, inp)
    /\ \A i, j \in 1 .. Len(out) :
          i < j =>
              /\ out[i].startTime <= out[j].startTime
              /\ out[i].startTime = out[j].startTime
                    => IndexIn(inp, out[i]) < IndexIn(inp, out[j])

\* C5: after every successful fetch cycle the committed appointments are a
\* permutation of the list the store query returned, in ascending startTime
\* order, appointments of equal startTime in their input order.
C5_CommittedIsStableSort ==
    (~loading /\ error = NoError) =>
        IsStableSortOf(appointments, fetchedAppointments)

C5_Witness ==
    /\ ~loading
    /\ error = NoError
    /\ Len(fetchedAppointments) = 2
    /\ fetchedAppointments[1].startTime > fetchedAppointments[2].startTime
    /\ appointments = <<fetchedAppointments[2], fetchedAppointments[1]>>

RECURSIVE IsSubsequence(_, _)
IsSubsequence(sub, list) ==
    IF sub = <<>> THEN TRUE
    ELSE IF list = <<>> THEN FALSE
    ELSE IF Head(sub) = Head(list)
         THEN IsSubsequence(Tail(sub), Tail(list))
         ELSE IsSubsequence(sub, Tail(list))

IsBlank(q) == \A i \in 1 .. Len(q) : q[i] = " "

\* C6: for every search query and every fetched list the filtered list is a
\* subsequence of the fetched list (same relative order, nothing added or
\* duplicated), and it is the fetched list itself when the query is empty or
\* only white space.
C6_FilteredIsSubsequence ==
    /\ IsSubsequence(viewAppointments, appointments)
    /\ IsBlank(searchQuery) => viewAppointments = appointments

C6_Witness ==
    /\ searchQuery = <<" ", " ">>
    /\ Len(appointments) = 2
    /\ viewAppointments = appointments

\* q occurs in s, letter case ignored.
ContainsIgnoringCase(s, q) ==
    \E off \in 0 .. Len(s) - Len(q) :
        \A i \in 1 .. Len(q) : lowerChar(s[off + i]) = lowerChar(q[i])

InFiltered(a) ==
    \E k \in 1 .. Len(viewAppointments) : viewAppointments[k] = a

NotesContain(a, q) == a.notes.some /\ ContainsIgnoringCase(a.notes.text, q)

\* C7 as stated: for a non-blank query q an appointment of the fetched list is
\* in the filtered list if and only if q, letter case ignored, is a substring
\* of the resolved patient's name, of the appointment's type label or of its
\* notes.
C7_AsStated ==
    ~IsBlank(searchQuery) =>
        \A k \in 1 .. Len(appointments) :
            LET a == appointments[k] IN
            InFiltered(a)
                <=> \/ ContainsIgnoringCase(PatientName(a.patientId), searchQuery)
                    \/ ContainsIgnoringCase(TypeLabel(a.type), searchQuery)
                    \/ NotesContain(a, searchQuery)

\* C7 amended: for a non-blank query q an appointment of the fetched list is in
\* the filtered list if and only if q, letter case ignored, is a substring of
\* the resolved patient's name, of the appointment's type value (the key stored
\* in appointment.type, not its display label) or of its notes; an appointment
\* without notes can still match on name or type.
C7_MatchesNameTypeOrNotes ==
    ~IsBlank(searchQuery) =>
        \A k \in 1 .. Len(appointments) :
            LET a == appointments[k] IN
            InFiltered(a)
                <=> \/ ContainsIgnoringCase(PatientName(a.patientId), searchQuery)
                    \/ ContainsIgnoringCase(a.type, searchQuery)
                    \/ NotesContain(a, searchQuery)

C7_Witness ==
    /\ searchQuery = <<"A">>
    /\ Len(appointments) = 2
    /\ \E k \in 1 .. 2 : ~appointments[k].notes.some /\ InFiltered(appointments[k])
    /\ Len(viewAppointments) = 1

\* The day view is on screen: a doctor is selected, no fetch is outstanding
\* and the last one did not fail.
DayViewShown ==
    /\ selectedDoctorId # ""
    /\ ~loading
    /\ error = NoError
    /\ view = "day"

\* C10: an appointment whose endTime is not after its startTime is rejected
\* before layout: it is never bucketed into a slot and never rendered.
C10_InvalidNeverRendered ==
    DayViewShown =>
        LET rows == DayViewRows(viewAppointments, selectedDate) IN
        \A i \in 1 .. Len(rows) :
            \A k \in 1 .. Len(rows[i]) :
                rows[i][k].startTime < rows[i][k].endTime

(***************************************************************************)
(* Properties of the fetch cycle                                           *)
(***************************************************************************)
\* The committed list answers the request of the current parameters: every
\* appointment is the selected doctor's and lies on the selected day (day
\* view) or meets the requested range (week view).
CommittedAnswersRequest ==
    \A k \in 1 .. Len(appointments) :
        LET a == appointments[k] IN
        /\ a.doctorId = selectedDoctorId
        /\ IF hasRange
           THEN a.startTime <= endDateParam /\ a.endTime >= startDateParam
           ELSE startOfDay(a.startTime) = startOfDay(selectedDate)

\* C11: whatever the sequence of parameter changes, the appointments finally
\* committed are the result of the most recent request: once no fetch is
\* scheduled the committed list answers the current parameters, and every
\* step that commits a list commits one that answers the parameters of that
\* moment, never those of an earlier request.
C11_LatestRequestWins ==
    /\ [](~effectPending => CommittedAnswersRequest)
    /\ [][appointments' # appointments => CommittedAnswersRequest']_vars

C11_Witness ==
    /\ ~effectPending
    /\ selectedDoctorId = "d2"
    /\ selectedDate = subDays(Today, 2)
    /\ Len(appointments) = 2
    /\ CommittedAnswersRequest

\* A step of the fetch effect: the page state and the search text stay as
\* they are and the hook's state changes.
FetchCycleStep ==
    /\ effectPending
    /\ UNCHANGED <<selectedDoctorId, selectedDate, view, searchQuery>>
    /\ <<appointments, loading, error, fetchedAppointments, effectPending>>'
           # <<appointments, loading, error, fetchedAppointments, effectPending>>

\* C12: each parameter change triggers exactly one fetch-and-recompute cycle:
\* when a cycle has committed, no further fetch is scheduled until a parameter
\* changes again, in day view and in week view alike.
C12_OneCyclePerChange ==
    [][FetchCycleStep => ~effectPending']_vars

\* C13: a store query or a sort that throws does not propagate: the cycle
\* ends with error set to an Error, the appointments empty and loading false;
\* in every reachable state a non-null error implies an empty list; and a
\* cycle that succeeds ends with error = null.
C13_FailureIsContained ==
    /\ [](error # NoError => appointments = <<>> /\ ~loading)
    /\ [](error \in {NoError, "Error"})
    /\ [][(FetchCycleStep /\ error' # NoError)
             => (appointments' = <<>> /\ ~loading')]_vars
    /\ [][(FetchCycleStep /\ appointments' # <<>>) => error' = NoError]_vars

\* A cycle has failed for a selected doctor on a date other than the initial one.
C13_Witness ==
    /\ error = "Error"
    /\ appointments = <<>>
    /\ ~loading
    /\ selectedDoctorId = "d1"
    /\ selectedDate # Today

(***************************************************************************)
(* Properties of what ScheduleView renders                                 *)
(***************************************************************************)
\* C14: ScheduleView renders exactly one of the select-a-doctor prompt, the
\* loading indicator, the fetch error and the calendar view; the prompt is
\* shown if and only if no doctor is selected, the error panel only when a
\* fetch failed, and the "no appointments" empty state only when the fetch
\* succeeded and the queried range holds no appointments: never together
\* with the error panel and not merely because the search query filtered
\* every fetched appointment out.
C14_StatesStayDistinct ==
    /\ screen \in {"prompt", "loading", "error", "calendar"}
    /\ screen = "prompt" <=> selectedDoctorId = ""
    /\ screen = "error" => error # NoError
    /\ emptyStateShown => /\ error = NoError
                          /\ screen # "error"
                          /\ fetchedAppointments = <<>>

(***************************************************************************)
(* Properties of the week                                                  *)
(***************************************************************************)
\* [startDate, endDate] starts at Monday 00:00 of the selected date's week and
\* holds every minute of that week's Sunday.
CoversWeekThroughSunday(startDate, endDate) ==
    /\ getDay(startDate) = 1
    /\ startDate = startOfDay(startDate)
    /\ startDate <= selectedDate /\ selectedDate < addDays(startDate, 7)
    /\ \A m \in 0 .. MinutesPerDay - 1 :
           LET t == addDays(startDate, 6) + m IN
           /\ getDay(t) = 0
           /\ startDate <= t /\ t <= endDate

\* C15: in week view the range handed to the range query starts at Monday
\* 00:00 of the selected date's week and ends at the end of the day on Sunday,
\* so an appointment starting at any time on that Sunday lies inside it; this
\* holds for the range ScheduleView passes to useAppointments and for the one
\* built by useWeekViewAppointments.
C15_WeekRangeCoversSunday ==
    view = "week" =>
        /\ CoversWeekThroughSunday(startDateParam, endDateParam)
        /\ CoversWeekThroughSunday(useWeekViewAppointments(weekStartDate).startDate,
                                   useWeekViewAppointments(weekStartDate).endDate)

\* The half of C15 about useWeekViewAppointments alone.
C15_HelperRangeCoversSunday ==
    view = "week" =>
        CoversWeekThroughSunday(useWeekViewAppointments(weekStartDate).startDate,
                                useWeekViewAppointments(weekStartDate).endDate)

(***************************************************************************)
(* Properties of the week grid                                             *)
(***************************************************************************)
\* The rows DayView renders for each day of the displayed week.
wvDayViewRows ==
    [d \in 1 .. 7 |-> DayViewRows(wvAppointments, weekDays(wvWeekStartDate)[d])]

\* `listed` is in ascending start order and keeps the order of the list.
InListOrder(listed, populated) ==
    /\ SortedByStart(listed)
    /\ IsSubsequence(listed, populated)

\* Both appointments are in `listed`, a before b.
ListedInOrder(listed, a, b) ==
    \E i, j \in 1 .. Len(listed) :
        i < j /\ listed[i].id = a.id /\ listed[j].id = b.id

\* The index of the slot of the default configuration that starts at 9:00.
NineOClockSlot ==
    (9 - DEFAULT_CALENDAR_CONFIG.startHour)
        * (60 \div DEFAULT_CALENDAR_CONFIG.slotDuration) + 1

\* C16: within any one slot of the day view and any one cell of the week view
\* the appointments are listed in ascending startTime order, ties in the
\* order of the list passed to the view; appointments at 9:15 and 9:20 of a
\* day both appear under that day's slot [9:00, 9:30), the 9:15 one first.
C16_ListedInStartOrder ==
    wvRendered =>
        LET rows      == wvDayViewRows
            populated == getPopulatedAppointments(wvAppointments)
        IN
        /\ \A d \in 1 .. 7 :
               LET dayRows == rows[d] IN
               \A i \in 1 .. Len(dayRows) :
                   /\ InListOrder(dayRows[i], populated)
                   /\ InListOrder(wvCells[d][i], populated)
        /\ \A d \in 1 .. 7 :
               \A k, l \in 1 .. Len(wvAppointments) :
                   LET a == wvAppointments[k]
                       b == wvAppointments[l]
                       day == weekDays(wvWeekStartDate)[d]
                   IN  (/\ a.startTime = setHours(day, 9, 15)
                        /\ b.startTime = setHours(day, 9, 20))
                       => /\ ListedInOrder(rows[d][NineOClockSlot], a, b)
                          /\ ListedInOrder(wvCells[d][NineOClockSlot], a, b)

\* A Sunday with appointments at 9:15 and 9:20, rendered.
C16_Witness ==
    /\ wvRendered
    /\ Len(wvAppointments) = 2
    /\ wvAppointments[1].startTime = setHours(addDays(wvWeekStartDate, 6), 9, 15)
    /\ wvAppointments[2].startTime = setHours(addDays(wvWeekStartDate, 6), 9, 20)
    /\ Len(wvCells[7][NineOClockSlot]) = 2

\* The number of cells an appointment is rendered in.
CellsHolding(id) ==
    Cardinality({c \in (1 .. 7) \X (1 .. Len(wvCells[1])) :
                    \E k \in 1 .. Len(wvCells[c[1]][c[2]]) :
                        wvCells[c[1]][c[2]][k].id = id})

InDisplayedWeek(a) ==
    /\ a.startTime >= wvWeekStartDate
    /\ a.startTime < addDays(wvWeekStartDate, 7)

StartsInWorkingHours(a) ==
    /\ getHours(a.startTime) >= DEFAULT_CALENDAR_CONFIG.startHour
    /\ getHours(a.startTime) < DEFAULT_CALENDAR_CONFIG.endHour

\* C17: for every day d of the displayed week and every slot index i, cell
\* (d, i) of the week view lists exactly the appointments the day view lists
\* under slot i for date d, although the week view builds its slots from the
\* current date and re-anchors their hour and minute on each day; so an
\* appointment of the week that starts within working hours is in exactly one
\* cell.
C17_CellsMatchDayView ==
    wvRendered =>
        LET rows == wvDayViewRows IN
        /\ \A d \in 1 .. 7 :
               LET dayRows == rows[d] IN
               /\ Len(wvCells[d]) = Len(dayRows)
               /\ \A i \in 1 .. Len(dayRows) : wvCells[d][i] = dayRows[i]
        /\ \A k \in 1 .. Len(wvAppointments) :
               (InDisplayedWeek(wvAppointments[k])
                    /\ StartsInWorkingHours(wvAppointments[k]))
               => CellsHolding(wvAppointments[k].id) = 1

\* The view was mounted in another week than the one it shows, and shows a
\* Sunday appointment next to one that lies outside the week.
C17_Witness ==
    /\ wvRendered
    /\ ~isSameDay(startOfWeek(wvToday, 1), wvWeekStartDate)
    /\ Len(wvAppointments) = 2
    /\ getDay(wvAppointments[1].startTime) = 0
    /\ CellsHolding(wvAppointments[1].id) = 1
    /\ ~InDisplayedWeek(wvAppointments[2])
    /\ CellsHolding(wvAppointments[2].id) = 0

(***************************************************************************)
(* Properties of the week navigation                                       *)
(***************************************************************************)
\* The week ScheduleView computes for the selected date: it starts on a Monday
\* at 00:00, holds the selected date, and the seven days WeekView shows for
\* it are that Monday through the following Sunday.
WeekHoldsSelectedDate ==
    LET days == weekDays(weekStartDate) IN
    /\ getDay(weekStartDate) = 1
    /\ weekStartDate = startOfDay(weekStartDate)
    /\ weekStartDate <= selectedDate
    /\ selectedDate < addDays(weekStartDate, 7)
    /\ Len(days) = 7
    /\ days[1] = weekStartDate
    /\ \A i \in 1 .. 6 : days[i + 1] = days[i] + MinutesPerDay
    /\ \A i \in 1 .. 7 : getDay(days[i]) = i % 7

\* C18: for every selected date the weekStart ScheduleView computes is a
\* Monday with weekStart <= selectedDate < weekStart + 7 days, and WeekView
\* shows the 7 consecutive days weekStart .. weekStart + 6; this holds after
\* any sequence of previous / next / today navigation and view switches, and
\* in week view previous and next move the selected date, and with it the
\* week, by exactly 7 days.
C18_WeekStartIsMonday ==
    /\ []WeekHoldsSelectedDate
    /\ [][(view = "week" /\ handlePreviousDate)
             => /\ selectedDate' = selectedDate - 7 * MinutesPerDay
                /\ weekStartDate' = weekStartDate - 7 * MinutesPerDay]_vars
    /\ [][(view = "week" /\ handleNextDate)
             => /\ selectedDate' = selectedDate + 7 * MinutesPerDay
                /\ weekStartDate' = weekStartDate + 7 * MinutesPerDay]_vars

\* The week view after a move to the second week, on a date that is not the
\* Monday.
C18_Witness ==
    /\ view = "week"
    /\ weekStartDate = 7 * MinutesPerDay
    /\ selectedDate = 8 * MinutesPerDay + 877
    /\ WeekHoldsSelectedDate

(***************************************************************************)
(* Properties of loading and of the search box                             *)
(***************************************************************************)
\* C19: loading starts true; every fetch cycle, whether it succeeds or fails,
\* ends with loading = false; and loading is never left true once the last
\* started cycle has finished (no cycle is scheduled).
C19_LoadingEndsFalse ==
    /\ loading = TRUE
    /\ [](loading => effectPending)
    /\ [][FetchCycleStep => ~loading']_vars
    /\ [][(effectPending /\ ~effectPending') => ~loading']_vars

\* A failed cycle has finished, no cycle is scheduled and loading is false.
C19_Witness ==
    /\ ~loading
    /\ ~effectPending
    /\ error = "Error"
    /\ selectedDoctorId = "d2"

C21_UnresolvedDoctorIsUndefined ==
    /\ [](selectedDoctorId \notin DoctorIds <=> doctor = Undefined)
    /\ [][selectedDoctorId' # selectedDoctorId
            => UNCHANGED <<error, appointments, loading>>]_vars

spanListedUnder == {i \in 1 .. Len(spanRows) : spanRows[i] # <<>>}

\* The slot that holds the appointment's start.
spanStartSlot ==
    {i \in 1 .. Len(PositionSlots) :
        /\ PositionSlots[i].start <= spanAppointment.startTime
        /\ spanAppointment.startTime < PositionSlots[i].end}

\* C22: for an appointment with startTime < endTime on whole-minute
\* boundaries getAppointmentDuration is the number of minutes from start to
\* end and getAppointmentSlotSpan is ceil(duration / slotDuration), the least
\* number of slots that cover the duration, which is at least 1; the span has
\* no effect on the bucketing: the appointment is listed under the one slot
\* that holds its start, and a 90-minute appointment that starts at 9:00 only
\* under the 9:00 slot.
C22_DurationAndSpan ==
    span.computed =>
        LET slotDuration == DEFAULT_CALENDAR_CONFIG.slotDuration IN
        /\ span.duration = spanAppointment.endTime - spanAppointment.startTime
        /\ span.slots >= 1
        /\ span.slots * slotDuration >= span.duration
        /\ (span.slots - 1) * slotDuration < span.duration
        /\ spanListedUnder = spanStartSlot
        /\ Cardinality(spanListedUnder) = 1
        /\ (spanAppointment.startTime = 9 * 60 /\ span.duration = 90)
               => (span.slots = 3 /\ spanListedUnder = {NineOClockSlot})

\* The 90-minute appointment that starts at 9:00.
C22_Witness ==
    /\ span.computed
    /\ spanAppointment.startTime = 9 * 60
    /\ span.duration = 90
    /\ span.slots = 3
    /\ spanListedUnder = {NineOClockSlot}

====
